---- MODULE Spec2Model ----
(***************************************************************************)
(* Milestone closer: the MilestoneProcessor of instantish/milestone-closer *)
(* in its three versions:                                                  *)
(*   "full"     src/unnamed/part_000  (minimumIssues, related mode, reopen)*)
(*   "related"  src/unnamed/part_001  (fixed threshold, related mode)      *)
(*   "reopen"   src/unnamed/part_002  (fixed threshold, reopen)            *)
(* A step is what an async function does between two awaits: from the     *)
(* call of processMilestones(page) to the first request of getMilestones,  *)
(* from one awaited request to the next, from the return of getMilestones  *)
(* through the decrement and the early exits to the first mutator awaited, *)
(* from one mutator to the next. A request in flight may return or throw.  *)
(* A run is one call of processMilestones() on a new processor, which is   *)
(* how run() uses it; the tracker changes by the requests of the run only. *)
(***************************************************************************)
EXTENDS Integers, Sequences, FiniteSets

\* ---------------------------------------------------------------- bounds
\* Most milestones the tracker holds in the runs of Spec.
MaxMilestones == 2
\* Largest open_issues of a milestone.
MaxOpen == 1
\* Largest closed_issues of a milestone.
MaxClosed == 3
\* Largest value of the minimumIssues option.
MaxMinimum == 2
\* Most pull requests associated with the triggering commit.
MaxPulls == 1
\* Most characters of the min-issues input.
MaxInput == 2

\* ------------------------------------------------------ program constants
OPERATIONS_PER_RUN == 100
MIN_ISSUES_IN_MILESTONE == 3
\* per_page of listMilestonesForRepo
PER_PAGE == 100

Variants == {"full", "related", "reopen"}
MilestoneStates == {"open", "closed"}
\* github.context.eventName: the code only asks whether it is 'push' (and, for
\* a log line, whether it is 'pull_request').
EventNames == {"push", "schedule"}
\* "api": the processor's own getMilestones; "injected": a getMilestones
\* handed to the constructor, returning the same list for each of its pages.
Sources == {"api", "injected"}
\* The run functions: "main.ts/1" src/src/main.ts:7-32 (validates min-issues,
\* throws a string), "main.ts/2" src/src/main.ts:42-61 (reads no min-issues),
\* "part_002" src/unnamed/part_002:235-263 (validates min-issues, throws an
\* Error); "none" when the processor is constructed by another caller.
Mains == {"none", "main.ts/1", "main.ts/2", "part_002"}
\* The characters an input is made of: a sign, a point, digits, a letter.
Chars == {"-", ".", "0", "1", "a"}

VARIABLES
  variant,             \* which version of the processor runs
  options,             \* MilestoneProcessorOptions
  eventName,           \* github.context.eventName
  source,              \* where getMilestones comes from
  pulls,               \* milestone numbers linked by the commit's pull requests (0: none)
  before,              \* the tracker's milestones when the run started
  tracker,             \* the tracker's milestones, in listing order
  page,                \* argument of the pending processMilestones call
  operationsLeft,
  relatedNotFound,
  closedMilestones,
  reopenedMilestones,
  calls,               \* updateMilestone calls issued, in order
  requested,           \* page numbers getMilestones was called with, in order
  fetched,             \* the pages getMilestones returned, in order
  triaged,             \* milestones the for-loop has taken up, in order
  position,            \* the place in the page of the milestone whose mutator
                       \* the for-loop awaits (0: the loop is not running)
  pc,                  \* "main": run() has not started; "run": processMilestones(page)
                       \* is entered, by its caller or by the tail call of the call
                       \* for the page before; "fetching": it awaits getMilestones;
                       \* "mutating": it awaits openMilestone or closeMilestone;
                       \* "returned" | "failed"
  result,              \* value processMilestones returned (-1: none)
  main,                \* which run function drives the processor
  minIssuesInput,      \* core.getInput('min-issues'), a sequence of characters
  thrown,              \* the value thrown in the run (NoError: none)
  setFailed,           \* the argument core.setFailed was called with
  trace,               \* the tracker requests of the last processMilestones
                       \* call so far: when each was sent and when it settled
  stubPages,           \* the pages an injected getMilestones has milestones for
  budgetWarning        \* whether 'Reached max number of operations' was logged

vars == <<variant, options, eventName, source, pulls, before, tracker, page,
          operationsLeft, relatedNotFound, closedMilestones, reopenedMilestones,
          calls, requested, fetched, triaged, position, pc, result,
          main, minIssuesInput, thrown, setFailed, trace, stubPages,
          budgetWarning>>

\* ------------------------------------------------------------ data model
Milestone(n, s, o, c) ==
  [number |-> n, state |-> s, open_issues |-> o, closed_issues |-> c]

MilestoneShapes ==
  [state : MilestoneStates, open_issues : 0..MaxOpen, closed_issues : 0..MaxClosed]

\* The shapes of the milestones of a tracker that holds several: the largest
\* closed_issues, and none or the most open issues.
SampleShapes ==
  { s \in MilestoneShapes : s.closed_issues = MaxClosed /\ s.open_issues \in {0, MaxOpen} }

\* The trackers of k milestones, numbered 1..k in listing order.
TrackersOf(k, Shapes) ==
  { [i \in 1..k |-> Milestone(i, f[i].state, f[i].open_issues, f[i].closed_issues)] :
      f \in [1..k -> Shapes] }

\* No milestone, or one of the sample shapes.
SampleTrackers == UNION { TrackersOf(k, SampleShapes) : k \in 0..1 }

\* No milestone, or one of any shape.
SmallTrackers == UNION { TrackersOf(k, MilestoneShapes) : k \in 0..1 }

\* No milestone, one of any shape, or up to MaxMilestones of the sample shapes.
Trackers == SmallTrackers \cup UNION { TrackersOf(k, SampleShapes) : k \in 2..MaxMilestones }

\* The trackers of the runs that use up the budget of operations: no
\* milestone, one of any shape, or two of the sample shapes.
BudgetTrackers == SmallTrackers \cup TrackersOf(2, SampleShapes)

RECURSIVE SeqsUpTo(_, _)
SeqsUpTo(S, n) ==
  IF n = 0 THEN { <<>> }
  ELSE LET shorter == SeqsUpTo(S, n - 1)
       IN  shorter \cup { Append(s, x) : s \in { t \in shorter : Len(t) = n - 1 }, x \in S }

Min(a, b) == IF a < b THEN a ELSE b

\* ------------------------------------------------------------ constructor
eventPush ==
  IF options.debugOnly THEN options.relatedOnly ELSE eventName = "push"

\* ---------------------------------------------------------- the tracker
\* issues.listMilestonesForRepo({state, per_page: 100, page})
listMilestonesForRepo(state, p) ==
  LET all == SelectSeq(tracker, LAMBDA m : m.state = state)
      first == (p - 1) * PER_PAGE + 1
      last == Min(p * PER_PAGE, Len(all))
  IN  IF first > Len(all) THEN <<>> ELSE SubSeq(all, first, last)

\* repos.listPullRequestsAssociatedWithCommit: the number of each pull
\* request's milestone (0 stands for a pull request without milestone, whose
\* milestone field is null).
listPullRequestsAssociatedWithCommit == pulls

\* issues.updateMilestone({milestone_number, state}): what the tracker makes
\* of milestone m when the call names it.
updateMilestone(m, state) == [m EXCEPT !.state = state]

\* -------------------------------------------------------- getMilestones
\* A relatedMode that looks at relatedOnly alone.
relatedModeOnly == options.relatedOnly

relatedMode == options.relatedOnly \/ options.relatedActive

\* part_000: the milestones pushed to milestonesSelfResult
milestonesSelfResult ==
  IF options.relatedOnly /\ eventPush
  THEN LET linked == SelectSeq(listPullRequestsAssociatedWithCommit, LAMBDA n : n # 0)
       IN  [i \in 1..Len(linked) |-> tracker[linked[i]]]
  ELSE <<>>

\* [...new Set([...])] drops nothing: a Set of objects compares them by
\* identity, and every element of a response is an object of its own.
getMilestonesFull(p) ==
  IF relatedMode
  THEN milestonesSelfResult
  ELSE listMilestonesForRepo("open", p)
         \o (IF options.reopenActive THEN listMilestonesForRepo("closed", p) ELSE <<>>)

getMilestonesRelated(p) ==
  IF relatedMode THEN <<>> ELSE listMilestonesForRepo("open", p)

getMilestonesReopen(p) ==
  listMilestonesForRepo("open", p)
    \o (IF options.reopenActive THEN listMilestonesForRepo("closed", p) ELSE <<>>)

\* The getMilestones the constructor installed. An injected one returns the
\* milestones as they were before the run, whatever their state, for the
\* pages 1..stubPages, and an empty page after them.
getMilestones(p) ==
  CASE source = "injected" -> IF p <= stubPages THEN before ELSE <<>>
    [] variant = "full" -> getMilestonesFull(p)
    [] variant = "related" -> getMilestonesRelated(p)
    [] OTHER -> getMilestonesReopen(p)

\* emptyObject(pr.milestone) is Object.keys(pr.milestone).length <= 0, and
\* Object.keys throws a TypeError for the null of a pull request without
\* milestone: getMilestones throws whenever it looks at such a pull request.
emptyObjectThrows ==
  /\ source = "api"
  /\ variant \in {"full", "related"}
  /\ options.relatedOnly /\ eventPush
  /\ \E i \in DOMAIN listPullRequestsAssociatedWithCommit :
       listPullRequestsAssociatedWithCommit[i] = 0

\* A request to the tracker's client: the method, the state it names and
\* the page or milestone number it names (0: none).
Request(method, state, number) == [method |-> method, state |-> state, number |-> number]

\* The requests getMilestones(p) sends, in order.
reads(p) ==
  CASE source = "injected" -> <<>>
    [] variant \in {"full", "related"} /\ relatedMode ->
         IF options.relatedOnly /\ eventPush
         THEN << Request("listPullRequestsAssociatedWithCommit", "", 0) >>
         ELSE <<>>
    [] variant = "related" -> << Request("listMilestonesForRepo", "open", p) >>
    [] OTHER ->
         << Request("listMilestonesForRepo", "open", p) >>
           \o (IF options.reopenActive
               THEN << Request("listMilestonesForRepo", "closed", p) >>
               ELSE <<>>)

\* Mutators that both send state: 'open'.
writesAllOpen(cs) ==
  [i \in 1..Len(cs) |-> Request("updateMilestone", "open", cs[i].milestone.number)]

\* The requests behind the updateMilestone calls cs, in order.
writes(cs) ==
  [i \in 1..Len(cs) |-> Request("updateMilestone", cs[i].state, cs[i].milestone.number)]

\* An entry of trace: request r was sent, has returned or threw.
event(r, at) == [request |-> r, at |-> at]

\* The requests reqs leaving the client one after the other.
sends(reqs) == [i \in 1..Len(reqs) |-> event(reqs[i], "sent")]

\* A getMilestones that sends all its requests before it awaits any.
sentAtOnceAll(reqs) == reqs

\* The requests of reqs that leave before getMilestones first suspends: each
\* request is awaited, so the first one alone.
sentAtOnce(reqs) == IF reqs = <<>> THEN <<>> ELSE << reqs[1] >>

\* The listing and lookup requests the current call has sent so far.
readsSent ==
  Len(SelectSeq(trace, LAMBDA e : e.at = "sent" /\ e.request.method # "updateMilestone"))

\* Whether a request is in flight: the last one sent has not settled.
inFlight == trace # <<>> /\ trace[Len(trace)].at = "sent"

\* trace once the request in flight, if any, has settled as at.
settled(at) ==
  IF inFlight THEN Append(trace, event(trace[Len(trace)].request, at)) ELSE trace

\* ----------------------------------------------------------- early exits
\* The returns between the decrement and the for-loop; left is operationsLeft
\* after the decrement.
\* The empty-page return taken only when reopenActive is set.
exitsFullFlipped(ms, left) ==
  \/ Len(ms) <= 0 /\ options.reopenActive
  \/ relatedMode /\ left < OPERATIONS_PER_RUN - 1 /\ ~options.reopenActive
  \/ relatedMode /\ relatedNotFound /\ ~options.reopenActive

\* No return for a page that is not the first one.
exitsFullAnyPage(ms, left) ==
  \/ Len(ms) <= 0 /\ ~options.reopenActive
  \/ relatedMode /\ relatedNotFound /\ ~options.reopenActive

\* Returns that do not look at reopenActive, as in part_001.
exitsFullNoReopenTest(ms, left) ==
  \/ Len(ms) <= 0
  \/ relatedMode /\ left < OPERATIONS_PER_RUN - 1
  \/ relatedMode /\ relatedNotFound

exitsFull(ms, left) ==
  \/ Len(ms) <= 0 /\ ~options.reopenActive
  \/ relatedMode /\ left < OPERATIONS_PER_RUN - 1 /\ ~options.reopenActive
  \/ relatedMode /\ relatedNotFound /\ ~options.reopenActive

exitsRelated(ms, left) ==
  \/ Len(ms) <= 0
  \/ relatedMode /\ left < OPERATIONS_PER_RUN - 1
  \/ relatedMode /\ relatedNotFound

exitsReopen(ms, left) ==
  \/ Len(ms) <= 0 /\ ~options.reopenActive
  \/ left < OPERATIONS_PER_RUN - 1 /\ ~options.reopenActive
  \/ relatedNotFound /\ ~options.reopenActive

exits(ms, left) ==
  CASE variant = "full" -> exitsFull(ms, left)
    [] variant = "related" -> exitsRelated(ms, left)
    [] OTHER -> exitsReopen(ms, left)

\* ---------------------------------------------------------------- triage
totalIssues(m) == m.open_issues + m.closed_issues

\* A loop body that skips a milestone of exactly minimumIssues issues.
triageFullStrict(m) ==
  IF m.state = "closed" /\ options.reopenActive /\ m.open_issues > 0 THEN "reopen"
  ELSE IF totalIssues(m) <= options.minimumIssues THEN "skip"
  ELSE IF m.state = "open" /\ m.open_issues > 0 THEN "skip"
  ELSE IF m.state = "open" THEN "close"
  ELSE "skip"

\* A loop body that checks the number of issues before it looks for a reopen.
triageFullMinimumFirst(m) ==
  IF totalIssues(m) < options.minimumIssues THEN "skip"
  ELSE IF m.state = "closed" /\ options.reopenActive /\ m.open_issues > 0 THEN "reopen"
  ELSE IF m.state = "open" /\ m.open_issues > 0 THEN "skip"
  ELSE IF m.state = "open" THEN "close"
  ELSE "skip"

\* A loop body without the open-issues check.
triageFullNoOpenCheck(m) ==
  IF m.state = "closed" /\ options.reopenActive /\ m.open_issues > 0 THEN "reopen"
  ELSE IF totalIssues(m) < options.minimumIssues THEN "skip"
  ELSE IF m.state = "open" THEN "close"
  ELSE "skip"

\* A loop body without the minimum-issues check.
triageFullNoMinimum(m) ==
  IF m.state = "closed" /\ options.reopenActive /\ m.open_issues > 0 THEN "reopen"
  ELSE IF m.state = "open" /\ m.open_issues > 0 THEN "skip"
  ELSE IF m.state = "open" THEN "close"
  ELSE "skip"

\* A loop body that closes whatever passed the two skips, as part_001 does.
triageFullNoStateCheck(m) ==
  IF m.state = "closed" /\ options.reopenActive /\ m.open_issues > 0 THEN "reopen"
  ELSE IF totalIssues(m) < options.minimumIssues THEN "skip"
  ELSE IF m.state = "open" /\ m.open_issues > 0 THEN "skip"
  ELSE "close"

\* A loop body that reopens a closed milestone without looking at its open issues.
triageFullReopenIdle(m) ==
  IF m.state = "closed" /\ options.reopenActive THEN "reopen"
  ELSE IF totalIssues(m) < options.minimumIssues THEN "skip"
  ELSE IF m.state = "open" /\ m.open_issues > 0 THEN "skip"
  ELSE IF m.state = "open" THEN "close"
  ELSE "skip"

\* The body of the for-loop: "reopen" (openMilestone), "close" (closeMilestone)
\* or "skip".
triageFull(m) ==
  IF m.state = "closed" /\ options.reopenActive /\ m.open_issues > 0 THEN "reopen"
  ELSE IF totalIssues(m) < options.minimumIssues THEN "skip"
  ELSE IF m.state = "open" /\ m.open_issues > 0 THEN "skip"
  ELSE IF m.state = "open" THEN "close"
  ELSE "skip"

triageRelated(m) ==
  IF totalIssues(m) < MIN_ISSUES_IN_MILESTONE THEN "skip"
  ELSE IF m.open_issues > 0 THEN "skip"
  ELSE "close"

triageReopen(m) ==
  IF m.state = "closed" /\ options.reopenActive /\ m.open_issues > 0 THEN "reopen"
  ELSE IF totalIssues(m) < MIN_ISSUES_IN_MILESTONE THEN "skip"
  ELSE IF m.state = "open" /\ m.open_issues > 0 THEN "skip"
  ELSE IF m.state = "open" THEN "close"
  ELSE "skip"

triage(m) ==
  CASE variant = "full" -> triageFull(m)
    [] variant = "related" -> triageRelated(m)
    [] OTHER -> triageReopen(m)

\* ------------------------------------------------------------- mutators
\* A closeMilestone that returns under debugOnly before it pushes.
closeMilestoneUnlessDebug(ms) ==
  IF options.debugOnly THEN <<>> ELSE SelectSeq(ms, LAMBDA m : triage(m) = "close")

\* closeMilestone: the milestones a loop over ms pushes to closedMilestones
closeMilestone(ms) == SelectSeq(ms, LAMBDA m : triage(m) = "close")

\* openMilestone: the milestones a loop over ms pushes to reopenedMilestones
openMilestone(ms) == SelectSeq(ms, LAMBDA m : triage(m) = "reopen")

\* Mutators that do not look at debugOnly.
callsTrackerAlways == TRUE

\* Whether a mutator goes on to client.issues.updateMilestone.
callsTracker == ~options.debugOnly

\* The updateMilestone calls a loop over ms issues, in order: the milestone
\* whose number is sent and the state asked for. The last one throws when
\* lastOk is FALSE.
issued(ms, lastOk) ==
  IF ~callsTracker THEN <<>>
  ELSE LET acted == SelectSeq(ms, LAMBDA m : triage(m) # "skip")
       IN  [i \in 1..Len(acted) |->
              [milestone |-> acted[i],
               state |-> IF triage(acted[i]) = "close" THEN "closed" ELSE "open",
               ok |-> (i < Len(acted)) \/ lastOk]]

\* The tracker after the calls cs, in order: each milestone as the last call
\* that named it and did not throw left it.
applied(t, cs) ==
  [i \in 1..Len(t) |->
     LET mine == SelectSeq(cs, LAMBDA c : c.ok /\ c.milestone.number = t[i].number)
     IN  IF mine = <<>> THEN t[i] ELSE updateMilestone(t[i], mine[Len(mine)].state)]

\* The tracker once the updateMilestone request r has returned: the milestone
\* of the number it names has the state it asks for.
served(t, r) ==
  [i \in 1..Len(t) |->
     IF t[i].number = r.number THEN updateMilestone(t[i], r.state) ELSE t[i]]

\* ------------------------------------------------------------------ main
\* No value thrown.
NoError == [kind |-> "none", text |-> <<>>]

\* What the tracker's client throws when a request fails: an Error whose
\* message is text.
RequestError == [kind |-> "Error", text |-> <<"request failed">>]

\* What Object.keys(null) throws.
TypeError == [kind |-> "Error", text |-> <<"Cannot convert undefined or null to object">>]

\* error.message of a value that has no such property.
Undefined == <<"undefined">>

\* core.setFailed has not been called.
NotCalled == [called |-> FALSE, message |-> <<>>]

Digits == {"0", "1"}

digitValue(c) == IF c = "1" THEN 1 ELSE 0

\* The digits of a numeral without its leading zeros, most significant first.
significant(ds) ==
  LET nonzero == { i \in DOMAIN ds : ds[i] # 0 }
  IN  IF nonzero = {} THEN <<>>
      ELSE SubSeq(ds, CHOOSE i \in nonzero : \A j \in nonzero : i <= j, Len(ds))

\* The digits of half the natural of digits ds (rounded down): each digit is
\* halved, an odd digit before it adding 5.
halved(ds) ==
  significant([i \in DOMAIN ds |->
                 (ds[i] + (IF i > 1 /\ ds[i - 1] % 2 = 1 THEN 10 ELSE 0)) \div 2])

\* The digits behind the point of twice the fraction of digits ds, a
\* fraction below 1/2: each digit is doubled, a digit of 5 or more behind it
\* adding 1.
doubled(ds) ==
  [i \in DOMAIN ds |->
     (2 * ds[i] + (IF i < Len(ds) /\ ds[i + 1] >= 5 THEN 1 ELSE 0)) % 10]

\* a <= b for digit sequences of one length.
atMost(a, b) ==
  LET differ == { i \in DOMAIN a : a[i] # b[i] }
      first == CHOOSE i \in differ : \A j \in differ : i <= j
  IN  differ = {} \/ a[first] < b[first]

\* ds followed by zeros, to the length n.
padded(ds, n) == ds \o [i \in 1..(n - Len(ds)) |-> 0]

\* A double has a significand of 53 bits: from 2^52 on every double is an
\* integer, and the doubles from 1 to 2 are 2^-52 apart. The digits of 2^52,
\* and the digits behind the point of 2^-53 = 5^53 / 10^53.
SignificandBits == 53
TwoTo52 == <<4,5,0,3,5,9,9,6,2,7,3,7,0,4,9,6>>
HalfUlpOfOne == [i \in 1..(SignificandBits - 38) |-> 0] \o <<1,1,1,0,2,2,3,0,2,4,6,2,5,1,5,6,5,4,0,4,2,3,6,3,1,6,6,8,0,9,0,8,2,0,3,1,2,5>>

\* The smallest positive double is 2^-1074, so a value of at most
\* 2^-1075 = 2.47...e-324 converts to 0: a fraction of digits 0 and 1 whose
\* first 1 stands at this place or behind it.
UnderflowPlace == 324

\* The largest double is 1.79...e308, and a numeral that rounds to more
\* converts to Infinity, which is no integer: a whole part of digits 0 and 1
\* with more significant digits than this.
OverflowDigits == 309

\* The digits behind the point of half the distance between the doubles
\* next to the natural of digits whole (below 2^52), t being that half for
\* 1: it doubles each time whole halves.
RECURSIVE halfUlp(_, _)
halfUlp(whole, t) ==
  IF whole = << 1 >> THEN t ELSE halfUlp(halved(whole), doubled(t))

\* Whether the double nearest to whole + 0.fraction is an integer, for
\* whole >= 1 (digits without leading zeros) and fraction > 0: from 2^52 on
\* it is; below, the sum rounds to whole when the fraction is at most half
\* the distance between the doubles next to whole (a tie rounds to the even
\* significand, which is whole's).
roundsToInteger(whole, fraction) ==
  \/ Len(whole) > Len(TwoTo52)
  \/ Len(whole) = Len(TwoTo52) /\ atMost(TwoTo52, whole)
  \/ LET half == halfUlp(whole, HalfUlpOfOne)
         length == IF Len(fraction) > Len(half) THEN Len(fraction) ELSE Len(half)
     IN  atMost(padded(fraction, length), padded(half, length))

\* Number(text) as far as the validation looks at it: whether the double it
\* converts to is an integer (the text is a numeral: a sign at most, digits,
\* at most one point; and the value it denotes rounds to an integer double)
\* and whether that double is below 0 (-0 is not). A numeral below 1 rounds
\* to 0 when it is 0 or underflows; its digits being 0 and 1, it underflows
\* when its first 1 stands at the place UnderflowPlace or behind, and it
\* overflows to Infinity with more than OverflowDigits significant digits
\* before the point. The empty text converts to 0.
Number(text) ==
  LET minus == text # <<>> /\ text[1] = "-"
      body == IF minus THEN Tail(text) ELSE text
      points == { i \in DOMAIN body : body[i] = "." }
      point == IF points = {} THEN Len(body) + 1 ELSE CHOOSE i \in points : TRUE
      wholeText == SubSeq(body, 1, point - 1)
      fractionText == SubSeq(body, point + 1, Len(body))
      numeric == /\ Cardinality(points) <= 1
                 /\ \A i \in DOMAIN wholeText : wholeText[i] \in Digits
                 /\ \A i \in DOMAIN fractionText : fractionText[i] \in Digits
                 /\ Len(wholeText) + Len(fractionText) > 0
      whole == significant([i \in DOMAIN wholeText |-> digitValue(wholeText[i])])
      fraction == [i \in DOMAIN fractionText |-> digitValue(fractionText[i])]
      places == { i \in DOMAIN fraction : fraction[i] # 0 }
      zero == whole = <<>> /\ \A i \in places : i >= UnderflowPlace
      integer == /\ Len(whole) <= OverflowDigits
                 /\ \/ places = {}
                    \/ zero
                    \/ whole # <<>> /\ roundsToInteger(whole, fraction)
  IN  IF text = <<>> THEN [integer |-> TRUE, negative |-> FALSE]
      ELSE [integer |-> numeric /\ integer,
            negative |-> numeric /\ minus /\ ~zero]

\* `'${core.getInput('min-issues')}' is not a valid value for the
\* 'min-issues' input, choose a non-negative integer.`
invalidMessage(text) ==
  <<"'">> \o text
    \o <<"' is not a valid value for the 'min-issues' input, choose a non-negative integer.">>

\* !Number.isInteger(args.minIssues) || args.minIssues < 0
invalidMinIssues(text) == ~Number(text).integer \/ Number(text).negative

\* getAndValidateArgs: the value it throws, NoError when it returns args.
getAndValidateArgs ==
  CASE main = "main.ts/1" /\ invalidMinIssues(minIssuesInput) ->
         [kind |-> "string", text |-> invalidMessage(minIssuesInput)]
    [] main = "part_002" /\ invalidMinIssues(minIssuesInput) ->
         [kind |-> "Error", text |-> invalidMessage(minIssuesInput)]
    [] OTHER -> NoError

\* error.message
messageOf(error) == IF error.kind = "Error" THEN error.text ELSE Undefined

\* catch (error) { core.error(error); core.setFailed(error.message) } of run;
\* a processor constructed by another caller has no such handler around it.
catch(error) ==
  IF main = "none" THEN setFailed ELSE [called |-> TRUE, message |-> messageOf(error)]

\* ---------------------------------------------------------------- Init
\* minimumIssues is no threshold at all, the largest one, or the fixed one.
OptionSets ==
  [minimumIssues : {0, MaxMinimum, MIN_ISSUES_IN_MILESTONE},
   relatedOnly : BOOLEAN, relatedActive : BOOLEAN,
   reopenActive : BOOLEAN, debugOnly : BOOLEAN]

\* The options each version reads; an option it does not have is fixed.
OptionsOf(v) ==
  CASE v = "full" -> { o \in OptionSets : o.minimumIssues \in {0, MaxMinimum} }
    [] v = "related" ->
         { o \in OptionSets : ~o.reopenActive /\ o.minimumIssues = MIN_ISSUES_IN_MILESTONE }
    [] OTHER ->
         { o \in OptionSets : ~o.relatedOnly /\ ~o.relatedActive
                               /\ o.minimumIssues = MIN_ISSUES_IN_MILESTONE }

\* A field initializer that sets the flag.
relatedNotFoundSet == TRUE

\* private relatedNotFound: boolean = false
relatedNotFoundInitial == FALSE

\* The fields of a new MilestoneProcessor(o, ...) and its surroundings.
Constructed(v, o, e, src, t, p) ==
  /\ variant = v
  /\ options = o
  /\ eventName = e
  /\ source = src
  /\ tracker = t
  /\ pulls = p
  /\ before = t
  /\ page = 1
  /\ operationsLeft = OPERATIONS_PER_RUN
  /\ relatedNotFound = relatedNotFoundInitial
  /\ closedMilestones = <<>>
  /\ reopenedMilestones = <<>>
  /\ calls = <<>>
  /\ requested = <<>>
  /\ fetched = <<>>
  /\ triaged = <<>>
  /\ position = 0
  /\ result = -1
  /\ thrown = NoError
  /\ setFailed = NotCalled
  /\ trace = <<>>
  /\ budgetWarning = FALSE

\* The state a new MilestoneProcessor(o, ...) starts processMilestones() in.
Start(v, o, e, src, t, p) ==
  /\ Constructed(v, o, e, src, t, p)
  /\ pc = "run"
  /\ main = "none"
  /\ minIssuesInput = <<>>
  /\ stubPages = OPERATIONS_PER_RUN

\* Runs that list the tracker's milestones (neither related option set).
DefaultRuns ==
  \E v \in Variants, t \in Trackers :
    \E o \in OptionsOf(v) :
      /\ ~o.relatedOnly /\ ~o.relatedActive
      /\ o.reopenActive => t \in BudgetTrackers
      /\ Start(v, o, "schedule", "api", t, <<>>)

\* Runs in related mode, for each event and each set of pull requests of the
\* commit.
RelatedRuns ==
  \E v \in {"full", "related"}, e \in EventNames, t \in SampleTrackers :
    \E o \in OptionsOf(v), p \in SeqsUpTo(0..Len(t), MaxPulls) :
      /\ o.relatedOnly \/ o.relatedActive
      /\ Start(v, o, e, "api", t, p)

\* Runs of a processor constructed with a getMilestones of the caller's, which
\* returns the tracker's milestones as they were before the run.
InjectedRuns ==
  \E v \in Variants, t \in SmallTrackers :
    \E o \in OptionsOf(v) :
      /\ o.reopenActive => t \in SampleTrackers
      /\ Start(v, o, "schedule", "injected", t, <<>>)

\* Trackers of one milestone more than a page of the listing holds: open
\* milestones with every issue closed, but for the busy ones (none, the
\* first, the last, or the whole first page).
PagingTrackers ==
  { [i \in 1..(PER_PAGE + 1) |->
       Milestone(i, "open", IF i \in busy THEN MaxOpen ELSE 0, MaxClosed)] :
      busy \in { {}, {1}, {PER_PAGE + 1}, 1..PER_PAGE } }

\* Runs that list a tracker of more than one page.
PagingRuns ==
  \E v \in Variants, t \in PagingTrackers :
    \E o \in OptionsOf(v) :
      /\ ~o.relatedOnly /\ ~o.relatedActive
      /\ Start(v, o, "schedule", "api", t, <<>>)

\* The texts of the min-issues input; it is required, so never empty.
InputTexts == SeqsUpTo(Chars, MaxInput) \ { <<>> }

\* The tracker of the runs started by a run function: one open milestone
\* with every issue closed.
MainTrackers == { << Milestone(1, "open", 0, MaxClosed) >> }

\* Runs started by a run function, for each text of the min-issues input it
\* reads. The options are the ones getAndValidateArgs returns when it
\* returns: debugOnly, and reopenActive where the function reads it; they
\* are the options part_002 reads, so that is the processor constructed.
MainRuns ==
  \E m \in Mains \ {"none"}, text \in SeqsUpTo(Chars, MaxInput), t \in MainTrackers :
    \E o \in OptionsOf("reopen") :
      /\ (m = "main.ts/2") = (text = <<>>)
      /\ m = "main.ts/1" => ~o.reopenActive
      /\ Constructed("reopen", o, "schedule", "api", t, <<>>)
      /\ pc = "main"
      /\ main = m
      /\ minIssuesInput = text
      /\ stubPages = OPERATIONS_PER_RUN

\* The last page an injected getMilestones has milestones for: the first, or
\* the one before the last the budget allows.
StubLastPages == {1, OPERATIONS_PER_RUN - 1}

\* Runs of a processor constructed with a getMilestones of the caller's that
\* pages: it returns one milestone for each page up to a last one, and an
\* empty page after it.
StubRuns ==
  \E v \in Variants, t \in SampleTrackers \ { <<>> }, n \in StubLastPages :
    \E o \in OptionsOf(v) :
      /\ ~o.relatedOnly /\ ~o.relatedActive
      /\ Constructed(v, o, "schedule", "injected", t, <<>>)
      /\ pc = "run"
      /\ main = "none"
      /\ minIssuesInput = <<>>
      /\ stubPages = n

Init == DefaultRuns \/ RelatedRuns \/ InjectedRuns \/ PagingRuns \/ MainRuns \/ StubRuns

\* -------------------------------------------------------------- actions
fixed == <<variant, options, eventName, source, pulls, before, relatedNotFound,
           main, minIssuesInput, stubPages>>

\* run: getAndValidateArgs throws, or returns the args the processor is
\* constructed with
RunStarts ==
  /\ pc = "main"
  /\ IF getAndValidateArgs # NoError
     THEN /\ pc' = "failed"
          /\ thrown' = getAndValidateArgs
          /\ setFailed' = catch(getAndValidateArgs)
     ELSE /\ pc' = "run"
          /\ UNCHANGED <<thrown, setFailed>>
  /\ UNCHANGED <<fixed, tracker, page, operationsLeft, closedMilestones,
                 reopenedMilestones, calls, requested, fetched, triaged, position,
                 result, trace, budgetWarning>>

\* A budget check that lets a call through with nothing left.
budgetLeftOffByOne == ~(operationsLeft < 0)

\* A processMilestones without the budget check.
budgetLeftAlways == TRUE

\* The guard at the top of processMilestones.
budgetLeft == ~(operationsLeft <= 0)

\* processMilestones: operationsLeft <= 0, return 0
BudgetExhausted ==
  /\ pc = "run"
  /\ ~budgetLeft
  /\ pc' = "returned"
  /\ budgetWarning' = TRUE
  /\ result' = 0
  /\ trace' = <<>>
  /\ UNCHANGED <<fixed, tracker, page, operationsLeft, closedMilestones,
                 reopenedMilestones, calls, requested, fetched, triaged, position,
                 thrown, setFailed>>

\* processMilestones: the guard passes and getMilestones(page) is called; it
\* runs to its first await, where its first request, if it has any, is in
\* flight
GetMilestonesCalled ==
  /\ pc = "run"
  /\ budgetLeft
  /\ requested' = Append(requested, page)
  /\ trace' = sends(sentAtOnce(reads(page)))
  /\ pc' = "fetching"
  /\ UNCHANGED <<fixed, tracker, page, operationsLeft, closedMilestones,
                 reopenedMilestones, calls, fetched, triaged, position, result,
                 thrown, setFailed, budgetWarning>>

\* getMilestones: a listing returns and the next one is sent
ListingReturns ==
  /\ pc = "fetching"
  /\ inFlight
  /\ readsSent < Len(reads(page))
  /\ trace' = Append(settled("returned"), event(reads(page)[readsSent + 1], "sent"))
  /\ UNCHANGED <<fixed, tracker, page, operationsLeft, closedMilestones,
                 reopenedMilestones, calls, requested, fetched, triaged, position,
                 pc, result, thrown, setFailed, budgetWarning>>

\* Whether getMilestones has nothing more to send: what is in flight is its
\* last request, or it sends none.
lastRead == readsSent >= Len(reads(page))

\* The first iteration at or after from of the for-loop over ms that awaits a
\* mutator (0: the loop runs to its end).
nextAwait(ms, from) ==
  IF \A j \in from..Len(ms) : triage(ms[j]) = "skip" THEN 0
  ELSE CHOOSE j \in from..Len(ms) :
         /\ triage(ms[j]) # "skip"
         /\ \A k \in from..(j - 1) : triage(ms[k]) = "skip"

\* The for-loop over ms from its iteration from on, as far as it goes without
\* suspending: the skips, then the push of the next milestone a mutator is
\* called for and the request the mutator sends, or the end of the loop,
\* where processMilestones(page + 1) is the next thing called. so is trace
\* as the step found it.
loop(ms, from, so) ==
  \E j \in { nextAwait(ms, from) } :
    \E taken \in { SubSeq(ms, from, IF j = 0 THEN Len(ms) ELSE j) } :
      /\ triaged' = triaged \o taken
      /\ closedMilestones' = closedMilestones \o closeMilestone(taken)
      /\ reopenedMilestones' = reopenedMilestones \o openMilestone(taken)
      /\ calls' = calls \o issued(taken, TRUE)
      /\ trace' = so \o sends(writes(SubSeq(calls', Len(calls) + 1, Len(calls'))))
      /\ position' = j
      /\ pc' = (IF j = 0 THEN "run" ELSE "mutating")
      /\ page' = (IF j = 0 THEN page + 1 ELSE page)

\* processMilestones: getMilestones has returned; the decrement and one of
\* the returns before the loop
ReturnEarly ==
  /\ pc = "fetching"
  /\ lastRead
  /\ ~emptyObjectThrows
  /\ \E ms \in { getMilestones(page) } :
       /\ exits(ms, operationsLeft - 1)
       /\ fetched' = Append(fetched, ms)
  /\ operationsLeft' = operationsLeft - 1
  /\ pc' = "returned"
  /\ result' = operationsLeft - 1
  /\ trace' = settled("returned")
  /\ UNCHANGED <<fixed, tracker, page, closedMilestones, reopenedMilestones,
                 calls, requested, triaged, position, thrown, setFailed,
                 budgetWarning>>

\* processMilestones: getMilestones has returned; the decrement, and the
\* for-loop up to its first await or to its end
TriagePage ==
  /\ pc = "fetching"
  /\ lastRead
  /\ ~emptyObjectThrows
  /\ operationsLeft' = operationsLeft - 1
  /\ \E ms \in { getMilestones(page) } :
       /\ ~exits(ms, operationsLeft - 1)
       /\ fetched' = Append(fetched, ms)
       /\ loop(ms, 1, settled("returned"))
  /\ UNCHANGED <<fixed, tracker, requested, result, thrown, setFailed,
                 budgetWarning>>

\* The mutator awaited returns (its request, if it sent one, has changed the
\* milestone's state at the tracker), and the for-loop goes on to its next
\* await or to its end
MutationReturns ==
  /\ pc = "mutating"
  /\ tracker' = (IF inFlight THEN served(tracker, trace[Len(trace)].request) ELSE tracker)
  /\ loop(fetched[Len(fetched)], position + 1, settled("returned"))
  /\ UNCHANGED <<fixed, operationsLeft, requested, fetched, result, thrown,
                 setFailed, budgetWarning>>

\* getMilestones throws on a pull request without milestone once the lookup
\* has returned: nothing is caught, the run fails
GetMilestonesThrows ==
  /\ pc = "fetching"
  /\ lastRead
  /\ emptyObjectThrows
  /\ pc' = "failed"
  /\ thrown' = TypeError
  /\ setFailed' = catch(TypeError)
  /\ trace' = settled("returned")
  /\ UNCHANGED <<fixed, tracker, page, operationsLeft, closedMilestones,
                 reopenedMilestones, calls, requested, fetched, triaged, position,
                 result, budgetWarning>>

\* The request of getMilestones that is in flight fails: nothing is caught,
\* the run fails
FetchFails ==
  /\ pc = "fetching"
  /\ inFlight
  /\ trace' = settled("threw")
  /\ pc' = "failed"
  /\ thrown' = RequestError
  /\ setFailed' = catch(RequestError)
  /\ UNCHANGED <<fixed, tracker, page, operationsLeft, closedMilestones,
                 reopenedMilestones, calls, requested, fetched, triaged, position,
                 result, budgetWarning>>

\* A processMilestones that catches what a mutator throws and goes on.
caught == "mutating"

\* Where processMilestones is after an awaited mutator threw: nothing
\* catches, the rejection ends the call and every call that awaits it.
uncaught == "failed"

\* The updateMilestone request in flight fails: the loop ends there
MutationFails ==
  /\ pc = "mutating"
  /\ inFlight
  /\ calls' = [calls EXCEPT ![Len(calls)].ok = FALSE]
  /\ trace' = settled("threw")
  /\ pc' = uncaught
  /\ thrown' = RequestError
  /\ setFailed' = catch(RequestError)
  /\ UNCHANGED <<fixed, tracker, page, operationsLeft, closedMilestones,
                 reopenedMilestones, requested, fetched, triaged, position, result,
                 budgetWarning>>

Next ==
  \/ RunStarts
  \/ BudgetExhausted
  \/ GetMilestonesCalled
  \/ ListingReturns
  \/ ReturnEarly
  \/ TriagePage
  \/ MutationReturns
  \/ GetMilestonesThrows
  \/ FetchFails
  \/ MutationFails

Spec == Init /\ [][Next]_vars

\* The steps in which no request fails.
Resumes ==
  \/ RunStarts
  \/ BudgetExhausted
  \/ GetMilestonesCalled
  \/ ListingReturns
  \/ ReturnEarly
  \/ TriagePage
  \/ MutationReturns
  \/ GetMilestonesThrows

\* Every awaited call settles and the runtime then resumes the async
\* function: while the run can go on without a failing request, it takes a
\* step. Nothing obliges a request to fail.
LiveSpec == Spec /\ WF_vars(Resumes)

\* ------------------------------------------------------------ properties
\* The milestones the calls cs were made for, in order.
milestonesOf(cs) == [i \in 1..Len(cs) |-> cs[i].milestone]

closeCalls == SelectSeq(calls, LAMBDA c : c.state = "closed")
reopenCalls == SelectSeq(calls, LAMBDA c : c.state = "open")

\* An open milestone with no open issue and at least minimumIssues issues.
Closable(m) ==
  /\ m.state = "open"
  /\ m.open_issues = 0
  /\ m.open_issues + m.closed_issues >= options.minimumIssues

\* A closed milestone that has open issues.
Reopenable(m) == m.state = "closed" /\ m.open_issues > 0

\* An open milestone that has open issues.
OpenBusy(m) == m.state = "open" /\ m.open_issues > 0

\* A milestone of fewer than minimumIssues issues.
Small(m) == m.open_issues + m.closed_issues < options.minimumIssues

IsClosed(m) == m.state = "closed"

\* C1: every milestone the loop takes up that is open, has no open issue and
\* has at least minimumIssues issues is appended to closedMilestones, and,
\* unless debugOnly, a set-state-to-closed call is issued for it.
C1_ClosableAreClosed ==
  variant = "full" =>
    /\ SelectSeq(closedMilestones, Closable) = SelectSeq(triaged, Closable)
    /\ ~options.debugOnly =>
         SelectSeq(milestonesOf(closeCalls), Closable) = SelectSeq(triaged, Closable)

\* A run without debugOnly has issued the close call for a milestone of
\* exactly minimumIssues issues (none at all when minimumIssues = 0).
C1_Witness ==
  /\ variant = "full"
  /\ ~options.debugOnly
  /\ \E i \in DOMAIN triaged :
       /\ Closable(triaged[i])
       /\ totalIssues(triaged[i]) = options.minimumIssues
       /\ \E j \in DOMAIN calls : calls[j].milestone = triaged[i] /\ calls[j].state = "closed"

\* C2: under debugOnly no updateMilestone call is ever issued and the tracker
\* stays as it was, while every milestone the loop selects for closing or
\* reopening is appended to closedMilestones or reopenedMilestones.
C2_DebugOnlyIssuesNoCall ==
  options.debugOnly =>
    /\ calls = <<>>
    /\ tracker = before
    /\ closedMilestones = SelectSeq(triaged, LAMBDA m : triage(m) = "close")
    /\ reopenedMilestones = SelectSeq(triaged, LAMBDA m : triage(m) = "reopen")

\* A debugOnly run that has recorded a close and a reopen.
C2_Witness ==
  /\ options.debugOnly
  /\ closedMilestones # <<>>
  /\ reopenedMilestones # <<>>

\* C3: with reopenActive, every closed milestone with open issues that the
\* loop takes up is appended to reopenedMilestones and (unless debugOnly) gets
\* a set-state-to-open call, whatever its number of issues; none is appended
\* to closedMilestones and none gets a set-state-to-closed call.
C3_ReopenTakesPrecedence ==
  (variant \in {"full", "reopen"} /\ options.reopenActive) =>
    /\ SelectSeq(reopenedMilestones, Reopenable) = SelectSeq(triaged, Reopenable)
    /\ ~options.debugOnly =>
         SelectSeq(milestonesOf(reopenCalls), Reopenable) = SelectSeq(triaged, Reopenable)
    /\ SelectSeq(closedMilestones, Reopenable) = <<>>
    /\ SelectSeq(milestonesOf(closeCalls), Reopenable) = <<>>

\* A closed milestone of fewer than minimumIssues issues has been reopened by
\* a call to the tracker.
C3_Witness ==
  /\ variant = "full"
  /\ options.reopenActive
  /\ \E i \in DOMAIN calls :
       /\ Reopenable(calls[i].milestone)
       /\ Small(calls[i].milestone)
       /\ calls[i].state = "open"
       /\ calls[i].milestone \in { reopenedMilestones[j] : j \in DOMAIN reopenedMilestones }

\* C4: an open milestone with open issues is appended to neither list and no
\* updateMilestone call is issued for it, in every version and for every
\* option value.
C4_OpenBusyUntouched ==
  /\ SelectSeq(closedMilestones, OpenBusy) = <<>>
  /\ SelectSeq(reopenedMilestones, OpenBusy) = <<>>
  /\ SelectSeq(milestonesOf(calls), OpenBusy) = <<>>

\* The loop has taken up an open milestone with open issues that has enough
\* issues to be closed, in a run that also closed a milestone.
C4_Witness ==
  /\ variant = "full"
  /\ closedMilestones # <<>>
  /\ \E i \in DOMAIN triaged : OpenBusy(triaged[i]) /\ ~Small(triaged[i])

\* C5 as claimed: a milestone of fewer than minimumIssues issues is appended
\* to neither list and gets no updateMilestone call, whatever its state and
\* whatever reopenActive.
C5_SmallUntouched ==
  variant = "full" =>
    /\ SelectSeq(closedMilestones, Small) = <<>>
    /\ SelectSeq(reopenedMilestones, Small) = <<>>
    /\ SelectSeq(milestonesOf(calls), Small) = <<>>

\* C5, amended: a milestone of fewer than minimumIssues issues is never
\* closed, and is reopened only when it is closed with open issues and
\* reopenActive is set; in every other case it is in neither list and gets
\* no updateMilestone call.
C5_SmallUntouchedUnlessReopened ==
  variant = "full" =>
    /\ SelectSeq(closedMilestones, Small) = <<>>
    /\ SelectSeq(milestonesOf(closeCalls), Small) = <<>>
    /\ \A i \in DOMAIN reopenedMilestones :
         Small(reopenedMilestones[i]) =>
           options.reopenActive /\ Reopenable(reopenedMilestones[i])
    /\ \A i \in DOMAIN reopenCalls :
         Small(reopenCalls[i].milestone) =>
           options.reopenActive /\ Reopenable(reopenCalls[i].milestone)

\* The loop has taken up an open milestone without open issues and of fewer
\* than minimumIssues issues, in a run that calls the tracker.
C5_Witness ==
  /\ variant = "full"
  /\ ~options.debugOnly
  /\ \E i \in DOMAIN triaged :
       Small(triaged[i]) /\ triaged[i].state = "open" /\ triaged[i].open_issues = 0

\* C6: without reopenActive no closed milestone is appended to either list
\* and none gets an updateMilestone call, whatever the source returns (the
\* versions that have the reopenActive option).
C6_ClosedNeverMutated ==
  (variant \in {"full", "reopen"} /\ ~options.reopenActive) =>
    /\ SelectSeq(closedMilestones, IsClosed) = <<>>
    /\ SelectSeq(reopenedMilestones, IsClosed) = <<>>
    /\ SelectSeq(milestonesOf(calls), IsClosed) = <<>>

\* An injected getMilestones has handed the loop a closed milestone with open
\* issues and enough issues, without reopenActive.
C6_Witness ==
  /\ variant = "full"
  /\ ~options.reopenActive
  /\ source = "injected"
  /\ \E i \in DOMAIN triaged : Reopenable(triaged[i]) /\ ~Small(triaged[i])

\* C7: operationsLeft is OPERATIONS_PER_RUN less the number of pages fetched,
\* stays within 0..OPERATIONS_PER_RUN, and getMilestones is never called more
\* than OPERATIONS_PER_RUN times.
C7_OneOperationPerPage ==
  /\ operationsLeft = OPERATIONS_PER_RUN - Len(fetched)
  /\ operationsLeft \in 0..OPERATIONS_PER_RUN
  /\ Len(fetched) <= Len(requested)
  /\ Len(requested) <= OPERATIONS_PER_RUN

\* A run stopped by the budget although every page still held milestones,
\* having fetched pages of one milestone with and without a mutation.
C7_Witness ==
  /\ pc = "returned"
  /\ operationsLeft = 0
  /\ result = 0
  /\ fetched[OPERATIONS_PER_RUN] # <<>>
  /\ Len(calls) = 1

\* C8: when the first page is empty and reopenActive is not set, the run has
\* returned after that one fetch, with nothing recorded and no call issued.
C8_EmptyFirstPageEnds ==
  (fetched # <<>> /\ fetched[1] = <<>> /\ ~options.reopenActive) =>
    /\ pc = "returned"
    /\ result = OPERATIONS_PER_RUN - 1
    /\ requested = <<1>>
    /\ Len(fetched) = 1
    /\ closedMilestones = <<>>
    /\ reopenedMilestones = <<>>
    /\ calls = <<>>

\* A default-mode run of part_000 whose first page was empty.
C8_Witness ==
  /\ variant = "full"
  /\ ~relatedMode
  /\ ~options.reopenActive
  /\ fetched = << <<>> >>
  /\ pc = "returned"

\* C9 as claimed: when a default-mode run without debugOnly returns, every
\* milestone that was open with no open issue and at least minimumIssues
\* issues when the run started is closed, provided the open milestones fit
\* within OPERATIONS_PER_RUN pages (a run that returns had no failing call).
C9_EveryEligibleClosed ==
  ( /\ variant = "full"
    /\ pc = "returned"
    /\ source = "api"
    /\ ~relatedMode
    /\ ~options.debugOnly
    /\ Len(SelectSeq(before, LAMBDA m : m.state = "open")) <= OPERATIONS_PER_RUN * PER_PAGE )
  => \A i \in DOMAIN before : Closable(before[i]) => tracker[i].state = "closed"

\* C10 as claimed: in the versions with the fixed threshold, the milestones
\* closed are exactly the open ones taken up that have more than
\* MIN_ISSUES_IN_MILESTONE issues, all of them closed.
C10_MoreThanThreeClosed ==
  variant \in {"related", "reopen"} =>
    closedMilestones =
      SelectSeq(triaged, LAMBDA m : /\ m.state = "open"
                                    /\ m.open_issues = 0
                                    /\ totalIssues(m) > MIN_ISSUES_IN_MILESTONE)

\* The updateMilestone calls that have settled: all but the one in flight.
settledCalls ==
  IF pc = "mutating" /\ inFlight THEN SubSeq(calls, 1, Len(calls) - 1) ELSE calls

\* C11: a failing fetch or updateMilestone call is the last call of the run:
\* the loop stops at the milestone whose call threw, nothing is fetched or
\* called afterwards, the tracker keeps every change made by the calls that
\* succeeded, and the run has failed (processMilestones returned nothing).
C11_FailureEndsTheRun ==
  /\ [](/\ \A i \in 1..(Len(calls) - 1) : calls[i].ok
        /\ (calls # <<>> /\ ~calls[Len(calls)].ok) =>
             /\ pc = "failed"
             /\ Len(requested) = Len(fetched)
             /\ triaged # <<>>
             /\ triaged[Len(triaged)] = calls[Len(calls)].milestone
        /\ Len(requested) # Len(fetched) =>
             /\ pc \in {"fetching", "failed"}
             /\ Len(requested) = Len(fetched) + 1
        /\ (pc = "failed" /\ thrown \in {RequestError, TypeError}) =>
             /\ result = -1
             /\ main # "none" => setFailed.called
             /\ \/ Len(requested) = Len(fetched) + 1
                \/ calls # <<>> /\ ~calls[Len(calls)].ok
        /\ tracker = applied(before, settledCalls))
  /\ [][pc = "failed" => UNCHANGED vars]_vars

\* updateMilestone threw for the second milestone of a page of more than two:
\* the first one is closed in the tracker, the rest of the page was not taken up.
C11_Witness ==
  /\ pc = "failed"
  /\ Len(calls) = 2
  /\ calls[1].ok /\ ~calls[2].ok
  /\ tracker[calls[1].milestone.number].state = "closed"
  /\ before[calls[1].milestone.number].state = "open"
  /\ Len(fetched) = 1
  /\ Len(triaged) < Len(fetched[1])

\* C12 as claimed: when the min-issues input is not a non-negative integer,
\* the run has failed before any fetch or updateMilestone call and
\* core.setFailed received the validation message naming the input; and when
\* a call to the tracker threw, core.setFailed received that error's message.
C12_FailureReasonIsTheMessage ==
  /\ ( /\ main \in {"main.ts/1", "part_002"}
       /\ pc # "main"
       /\ invalidMinIssues(minIssuesInput) ) =>
       /\ pc = "failed"
       /\ requested = <<>>
       /\ calls = <<>>
       /\ setFailed = [called |-> TRUE, message |-> invalidMessage(minIssuesInput)]
  /\ (main # "none" /\ thrown \in {RequestError, TypeError}) =>
       setFailed = [called |-> TRUE, message |-> thrown.text]

\* A closed milestone without open issues.
ClosedIdle(m) == m.state = "closed" /\ m.open_issues = 0

\* The milestones of the pages fetched so far.
fetchedMilestones ==
  UNION { { fetched[i][j] : j \in DOMAIN fetched[i] } : i \in DOMAIN fetched }

\* C13: closeMilestone is invoked (list entry, and call unless debugOnly) only
\* for a fetched milestone that is open, has no open issue and has at least
\* minimumIssues issues; openMilestone only for a fetched milestone that is
\* closed with open issues, and only under reopenActive; a closed milestone
\* without open issues is in neither list and gets no call (the versions with
\* the reopen path; part_002's threshold is MIN_ISSUES_IN_MILESTONE).
C13_MutationsJustified ==
  variant \in {"full", "reopen"} =>
    LET wasFetched == fetchedMilestones
    IN  /\ \A i \in DOMAIN closedMilestones :
             closedMilestones[i] \in wasFetched /\ Closable(closedMilestones[i])
        /\ \A i \in DOMAIN closeCalls :
             closeCalls[i].milestone \in wasFetched /\ Closable(closeCalls[i].milestone)
        /\ \A i \in DOMAIN reopenedMilestones :
             /\ reopenedMilestones[i] \in wasFetched
             /\ Reopenable(reopenedMilestones[i])
             /\ options.reopenActive
        /\ \A i \in DOMAIN reopenCalls :
             /\ reopenCalls[i].milestone \in wasFetched
             /\ Reopenable(reopenCalls[i].milestone)
             /\ options.reopenActive
        /\ SelectSeq(closedMilestones, ClosedIdle) = <<>>
        /\ SelectSeq(reopenedMilestones, ClosedIdle) = <<>>
        /\ SelectSeq(milestonesOf(calls), ClosedIdle) = <<>>

\* Under reopenActive the loop has taken up a closed milestone without open
\* issues and, in the same run, reopened another one by a call.
C13_Witness ==
  /\ variant = "full"
  /\ options.reopenActive
  /\ \E i \in DOMAIN triaged : ClosedIdle(triaged[i]) /\ ~Small(triaged[i])
  /\ \E i \in DOMAIN calls : calls[i].state = "open" /\ calls[i].ok

\* C14: in related mode without reopenActive only the first page is triaged:
\* the milestones taken up are milestones of the first page, in its order, the
\* second fetch is followed by the return (OPERATIONS_PER_RUN - 2) with
\* nothing of its page taken up, and getMilestones is called at most twice.
C14_RelatedFirstPageOnly ==
  (relatedMode /\ ~options.reopenActive) =>
    /\ Len(requested) <= 2
    /\ fetched # <<>> =>
         /\ Len(triaged) <= Len(fetched[1])
         /\ triaged = SubSeq(fetched[1], 1, Len(triaged))
         /\ closedMilestones = closeMilestone(triaged)
         /\ pc = "run" => triaged = fetched[1]
    /\ Len(fetched) = 2 =>
         /\ pc = "returned"
         /\ result = OPERATIONS_PER_RUN - 2
         /\ triaged = fetched[1]

\* A related-mode run returned after a second page that held a milestone
\* the loop would close, having closed the one of the first page by a call.
C14_Witness ==
  /\ relatedMode /\ ~options.reopenActive
  /\ pc = "returned"
  /\ Len(fetched) = 2
  /\ \E j \in DOMAIN fetched[2] : triage(fetched[2][j]) = "close"
  /\ Len(triaged) = Len(fetched[1])
  /\ calls # <<>>

\* Whether the loop has taken up m.
wasTriaged(m) == \E i \in DOMAIN triaged : triaged[i] = m

\* C15 as claimed: in default mode without reopenActive, in every version, a
\* run returns only after an empty page or with the budget used up, and
\* every milestone of every page it fetched was taken up and triaged (the
\* eligible ones closed).
C15_DefaultModePagesOn ==
  (~relatedMode /\ ~options.reopenActive /\ pc = "returned") =>
    /\ fetched[Len(fetched)] = <<>> \/ operationsLeft = 0
    /\ \A i \in DOMAIN fetched : \A j \in DOMAIN fetched[i] : wasTriaged(fetched[i][j])
    /\ closedMilestones = closeMilestone(triaged)

\* C16: with reopenActive a run that returns has called getMilestones for
\* the pages 1..OPERATIONS_PER_RUN, each once and in order, got every one of
\* them, and returns 0 with nothing left of the budget, whatever the pages held.
C16_ReopenRunsUseTheBudget ==
  (options.reopenActive /\ pc = "returned") =>
    /\ result = 0
    /\ operationsLeft = 0
    /\ requested = [p \in 1..OPERATIONS_PER_RUN |-> p]
    /\ Len(fetched) = OPERATIONS_PER_RUN

\* A reopenActive run in related mode whose pages were all empty has returned.
C16_Witness ==
  /\ options.reopenActive
  /\ relatedMode
  /\ pc = "returned"
  /\ \A i \in DOMAIN fetched : fetched[i] = <<>>

\* C17: every run ends: processMilestones eventually has returned or the run
\* has failed, whatever the options and whatever the source returns, and
\* getMilestones is never called more than OPERATIONS_PER_RUN times.
C17_EveryRunEnds ==
  /\ <>(pc \in {"returned", "failed"})
  /\ [](Len(requested) <= OPERATIONS_PER_RUN)

\* A run whose injected source returned a milestone for every page has
\* returned on the budget.
C17_Witness ==
  /\ source = "injected"
  /\ pc = "returned"
  /\ Len(fetched) = OPERATIONS_PER_RUN
  /\ \A i \in DOMAIN fetched : fetched[i] # <<>>

\* C18: in a related-only run of the processor's own getMilestones
\* whose event is not a push, whatever the other options, every page fetched
\* is empty, both lists stay empty, the run does not fail, and without
\* reopenActive it returns after its one fetch.
C18_NonPushYieldsNothing ==
  (options.relatedOnly /\ eventName # "push" /\ source = "api") =>
    /\ \A i \in DOMAIN fetched : fetched[i] = <<>>
    /\ closedMilestones = <<>>
    /\ reopenedMilestones = <<>>
    /\ calls = <<>>
    /\ pc # "failed"
    /\ ~options.reopenActive =>
         /\ Len(requested) <= 1
         /\ pc = "returned" => result = OPERATIONS_PER_RUN - 1

\* C19: in a run with relatedActive and without relatedOnly the processor's
\* getMilestones sends no request to the tracker and every page it returns is
\* empty; both lists stay empty, no updateMilestone call is issued, the
\* tracker stays as it was and nothing can throw, whatever the event, the
\* tracker and the commit's pull requests.
C19_RelatedActiveAloneDoesNothing ==
  (options.relatedActive /\ ~options.relatedOnly /\ source = "api") =>
    /\ trace = <<>>
    /\ \A i \in DOMAIN fetched : fetched[i] = <<>>
    /\ closedMilestones = <<>>
    /\ reopenedMilestones = <<>>
    /\ calls = <<>>
    /\ tracker = before
    /\ pc # "failed"

\* A run with relatedActive alone on a push has returned, the commit's pull
\* request linking an open milestone that has every issue closed.
C19_Witness ==
  /\ variant = "full"
  /\ options.relatedActive /\ ~options.relatedOnly /\ source = "api"
  /\ eventName = "push"
  /\ ~options.debugOnly
  /\ pc = "returned"
  /\ fetched # <<>>
  /\ \E i \in DOMAIN pulls : pulls[i] # 0 /\ triage(tracker[pulls[i]]) = "close"

\* The updateMilestone requests of the last processMilestones call, as sent.
updatesSent ==
  LET sent == SelectSeq(trace, LAMBDA e : e.at = "sent" /\ e.request.method = "updateMilestone")
  IN  [i \in 1..Len(sent) |-> sent[i].request]

\* C20: getMilestones is called for the pages 1, 2, 3, ... in order, each
\* once; within a processMilestones call every request is sent only when the
\* one before it has settled (never two in flight), a request is in flight
\* only while processMilestones awaits it, the reads of getMilestones come
\* before the updateMilestone calls, these are the calls for the acted-on
\* milestones of the page in the page's order, and none is in flight when
\* the call for the next page begins.
C20_StrictlySequential ==
  /\ requested = [p \in 1..Len(requested) |-> p]
  /\ pc = "run" => page = Len(requested) + 1
  /\ Len(trace) % 2 = 1 => pc \in {"fetching", "mutating"}
  /\ \A k \in DOMAIN trace :
       IF k % 2 = 1
       THEN trace[k].at = "sent"
       ELSE /\ trace[k].request = trace[k - 1].request
            /\ trace[k].at \in {"returned", "threw"}
            /\ trace[k].at = "threw" => k = Len(trace) /\ pc = "failed"
  /\ \A j, k \in DOMAIN trace :
       (j < k /\ trace[j].request.method = "updateMilestone") =>
         trace[k].request.method = "updateMilestone"
  /\ updatesSent # <<>> =>
       LET n == Len(updatesSent)
           last == SubSeq(calls, Len(calls) - n + 1, Len(calls))
           ms == fetched[Len(fetched)]
       IN  /\ updatesSent = writes(last)
           /\ \E j \in 1..Len(ms) :
                /\ milestonesOf(last)
                     = SelectSeq(SubSeq(ms, 1, j), LAMBDA m : triage(m) # "skip")
                /\ pc = "mutating" => j = position
                /\ pc = "run" => j = Len(ms)

\* The call for page 1 has ended after two listings and two updateMilestone
\* calls, and the call for page 2 is about to begin.
C20_Witness ==
  /\ pc = "run"
  /\ page = 2
  /\ Len(trace) = 8
  /\ Len(updatesSent) = 2
  /\ updatesSent[1].state # updatesSent[2].state

\* The numbers of the milestones the calls that did not throw were made for.
updatedNumbers == { calls[j].milestone.number : j \in { k \in DOMAIN calls : calls[k].ok } }

\* C21: a run changes nothing at the tracker but the state of the
\* milestones it closes or reopens. The milestones are the same ones in the
\* same order, each with its open_issues and closed_issues. A milestone
\* whose state has changed is one the policy acts on and the run recorded:
\* closed now, it was open without open issues, with minimumIssues issues
\* at least, and is in closedMilestones; open now, it was closed with open
\* issues, reopenActive is set, and it is in reopenedMilestones; under
\* debugOnly none has changed. Every updateMilestone request sent asks for
\* closed and names a milestone of closedMilestones, or asks for open and
\* names one of reopenedMilestones. And no step of the run changes the
\* options.
C21_OnlyStatesChange ==
  /\ [](LET closed == { closedMilestones[j] : j \in DOMAIN closedMilestones }
            reopened == { reopenedMilestones[j] : j \in DOMAIN reopenedMilestones }
        IN  /\ Len(tracker) = Len(before)
            /\ \A i \in DOMAIN tracker :
                 /\ tracker[i].number = before[i].number
                 /\ tracker[i].open_issues = before[i].open_issues
                 /\ tracker[i].closed_issues = before[i].closed_issues
                 /\ tracker[i].state # before[i].state =>
                      /\ ~options.debugOnly
                      /\ IF tracker[i].state = "closed"
                         THEN Closable(before[i]) /\ before[i] \in closed
                         ELSE /\ Reopenable(before[i])
                              /\ options.reopenActive
                              /\ before[i] \in reopened
            /\ \A k \in DOMAIN trace :
                 trace[k].request.method = "updateMilestone" =>
                   \E m \in (IF trace[k].request.state = "closed" THEN closed ELSE reopened) :
                     m.number = trace[k].request.number)
  /\ [][options' = options]_vars

\* A run has returned having closed one milestone by a call and skipped
\* another, which has open issues.
C21_Witness ==
  /\ pc = "returned"
  /\ Len(tracker) = 2
  /\ tracker[1].state = "closed" /\ before[1].state = "open"
  /\ tracker[2] = before[2]
  /\ tracker[2].open_issues > 0
  /\ updatedNumbers = {1}

\* Whether no two entries of the sequence of milestones ms have the same number.
distinctNumbers(ms) ==
  \A i, j \in DOMAIN ms : ms[i].number = ms[j].number => i = j

\* C22 as claimed: within a run no milestone number is recorded twice in
\* closedMilestones or twice in reopenedMilestones, and no milestone gets
\* more than one updateMilestone call, for the processor's own getMilestones
\* and every option combination.
C22_NoMilestoneTwice ==
  source = "api" =>
    /\ distinctNumbers(closedMilestones)
    /\ distinctNumbers(reopenedMilestones)
    /\ distinctNumbers(milestonesOf(calls))

\* ----------------------------------------------- a second run, replayed
\* The for-loop body of a processor of version v constructed with options o:
\* what it does with milestone m.
loopBody(v, o, m) ==
  CASE v = "related" ->
         IF totalIssues(m) < MIN_ISSUES_IN_MILESTONE THEN "skip"
         ELSE IF m.open_issues > 0 THEN "skip"
         ELSE "close"
    [] OTHER ->
         IF m.state = "closed" /\ o.reopenActive /\ m.open_issues > 0 THEN "reopen"
         ELSE IF totalIssues(m) < (IF v = "full" THEN o.minimumIssues
                                   ELSE MIN_ISSUES_IN_MILESTONE) THEN "skip"
         ELSE IF m.state = "open" /\ m.open_issues > 0 THEN "skip"
         ELSE IF m.state = "open" THEN "close"
         ELSE "skip"

\* The returns before the for-loop of such a processor (its relatedNotFound
\* is the FALSE of the field's initializer), for the page ms and what is left
\* after the decrement.
returnsBeforeLoop(v, o, ms, left) ==
  CASE v = "full" ->
         \/ Len(ms) <= 0 /\ ~o.reopenActive
         \/ (o.relatedOnly \/ o.relatedActive) /\ left < OPERATIONS_PER_RUN - 1
              /\ ~o.reopenActive
    [] v = "related" ->
         \/ Len(ms) <= 0
         \/ (o.relatedOnly \/ o.relatedActive) /\ left < OPERATIONS_PER_RUN - 1
    [] OTHER ->
         \/ Len(ms) <= 0 /\ ~o.reopenActive
         \/ left < OPERATIONS_PER_RUN - 1 /\ ~o.reopenActive

\* The pages lo..hi, one after the other.
RECURSIVE joined(_, _, _)
joined(pages, lo, hi) ==
  IF lo > hi THEN <<>>
  ELSE IF lo = hi THEN pages[lo]
  ELSE LET mid == (lo + hi) \div 2
       IN  joined(pages, lo, mid) \o joined(pages, mid + 1, hi)

\* processMilestones() of a processor of version v constructed with options
\* o, whose getMilestones returns pages[k] for page k and whose calls to the
\* tracker all return: the page it returned at (0: none of these), the
\* milestones it pushed to each list, the number of updateMilestone calls it
\* sent and the value it returned (-1: it asks for a page after the last).
processMilestones(v, o, pages) ==
  LET most == Min(Len(pages), OPERATIONS_PER_RUN)
      returning == { k \in 1..most :
                      returnsBeforeLoop(v, o, pages[k], OPERATIONS_PER_RUN - k) }
      stop == IF returning = {} THEN 0
              ELSE CHOOSE k \in returning : \A j \in returning : k <= j
      looped == joined(pages, 1, IF stop = 0 THEN most ELSE stop - 1)
      closed == SelectSeq(looped, LAMBDA m : loopBody(v, o, m) = "close")
      reopened == SelectSeq(looped, LAMBDA m : loopBody(v, o, m) = "reopen")
  IN  [stop |-> stop,
       fetches |-> IF stop = 0 THEN most ELSE stop,
       closed |-> closed,
       reopened |-> reopened,
       sent |-> IF o.debugOnly THEN 0 ELSE Len(closed) + Len(reopened),
       returned |-> IF stop # 0 THEN OPERATIONS_PER_RUN - stop
                    ELSE IF most = OPERATIONS_PER_RUN THEN 0
                    ELSE -1]

\* The options of the run that differs in debugOnly alone.
twinOptions == [options EXCEPT !.debugOnly = ~options.debugOnly]

\* C23: a run in which no call has thrown, and the run of a processor that
\* differs in debugOnly alone and is given the same pages, have pushed the
\* same milestones in the same order to closedMilestones and to
\* reopenedMilestones and fetched the same number of pages; when the one has
\* returned the other returns the same value, and while the one goes on the
\* other has not returned; the one without debugOnly has sent an
\* updateMilestone call for every milestone in the lists, the other none.
C23_DebugOnlyDecidesNothing ==
  pc \in {"run", "returned"} =>
    LET twin == processMilestones(variant, twinOptions, fetched)
    IN  /\ twin.closed = closedMilestones
        /\ twin.reopened = reopenedMilestones
        /\ twin.fetches = Len(fetched)
        /\ pc = "returned" => twin.returned = result
        /\ (pc = "run" /\ operationsLeft > 0) => twin.returned = -1
        /\ Len(calls) = (IF options.debugOnly THEN 0
                         ELSE Len(closedMilestones) + Len(reopenedMilestones))
        /\ twin.sent = (IF options.debugOnly
                        THEN Len(closedMilestones) + Len(reopenedMilestones)
                        ELSE 0)

\* A run without debugOnly has returned after a page on which it closed one
\* milestone and reopened another, each by a call.
C23_Witness ==
  /\ ~options.debugOnly
  /\ pc = "returned"
  /\ closedMilestones # <<>>
  /\ reopenedMilestones # <<>>
  /\ Len(calls) = 2
  /\ Len(fetched) > 1

\* The numbers of the milestones in the sequence ms.
numbersOf(ms) == { ms[i].number : i \in DOMAIN ms }

\* C24: the issue counts of the tracker's milestones staying as they were,
\* no milestone number is in closedMilestones and in reopenedMilestones of
\* the same run, and none gets both a set-state-to-closed and a
\* set-state-to-open call, whatever the later fetches return.
C24_NeverClosedAndReopened ==
  /\ numbersOf(closedMilestones) \cap numbersOf(reopenedMilestones) = {}
  /\ numbersOf(milestonesOf(closeCalls)) \cap numbersOf(milestonesOf(reopenCalls)) = {}

\* Under reopenActive a run has closed a milestone by a call on the first
\* page and was handed it again, closed, by the fetch of the second page.
C24_Witness ==
  /\ options.reopenActive
  /\ source = "api"
  /\ Len(fetched) >= 2
  /\ closeCalls # <<>>
  /\ \E j \in DOMAIN fetched[2] :
       /\ fetched[2][j].state = "closed"
       /\ fetched[2][j].number \in numbersOf(closedMilestones)
       /\ \E i \in DOMAIN fetched[1] :
            fetched[1][i].number = fetched[2][j].number /\ fetched[1][i].state = "open"

\* C25 as claimed: the value processMilestones returns is operationsLeft,
\* which is OPERATIONS_PER_RUN less the number of pages fetched and lies in
\* 0..OPERATIONS_PER_RUN - 1; it is 0 exactly when the run stopped at the
\* budget check (the one that logs the warning), and OPERATIONS_PER_RUN - 1
\* when it stopped on an empty first page.
C25_ReturnsRemainingBudget ==
  pc = "returned" =>
    /\ result = operationsLeft
    /\ result = OPERATIONS_PER_RUN - Len(fetched)
    /\ result \in 0..(OPERATIONS_PER_RUN - 1)
    /\ (result = 0) = budgetWarning
    /\ (Len(fetched) = 1 /\ fetched[1] = <<>>) => result = OPERATIONS_PER_RUN - 1

\* C25, amended: the same, but the value is 0 exactly when the run fetched
\* OPERATIONS_PER_RUN pages: it then stopped at the budget check of the next
\* call, or before the loop of the last call the budget allowed (on an empty
\* page, without reopenActive), where no warning is logged.
C25_ReturnsRemainingBudgetZeroAtLastPage ==
  pc = "returned" =>
    /\ result = operationsLeft
    /\ result = OPERATIONS_PER_RUN - Len(fetched)
    /\ result \in 0..(OPERATIONS_PER_RUN - 1)
    /\ (result = 0) = (Len(fetched) = OPERATIONS_PER_RUN)
    /\ budgetWarning => result = 0
    /\ (result = 0 /\ ~budgetWarning) =>
         /\ fetched[OPERATIONS_PER_RUN] = <<>>
         /\ ~options.reopenActive
    /\ (Len(fetched) = 1 /\ fetched[1] = <<>>) => result = OPERATIONS_PER_RUN - 1

\* A run has returned 0 from the return for an empty page: every page before
\* the last one the budget allows held a milestone, the last one none.
C25_Witness ==
  /\ pc = "returned"
  /\ result = 0
  /\ ~budgetWarning
  /\ Len(fetched) = OPERATIONS_PER_RUN
  /\ fetched[OPERATIONS_PER_RUN - 1] # <<>>
  /\ fetched[OPERATIONS_PER_RUN] = <<>>

\* C26: relatedNotFound is FALSE in every state of every run, and a run that
\* returned before the loop took the return for an empty page or the one
\* for a page after the first, never the one that tests relatedNotFound.
C26_RelatedNotFoundStaysFalse ==
  /\ relatedNotFound = FALSE
  /\ (pc = "returned" /\ ~budgetWarning) =>
       returnsBeforeLoop(variant, options, fetched[Len(fetched)], operationsLeft)

\* A related-only run on a push whose commit has no pull request has
\* returned: no related milestone was found.
C26_Witness ==
  /\ variant = "full"
  /\ source = "api"
  /\ options.relatedOnly
  /\ eventPush
  /\ pulls = <<>>
  /\ tracker # <<>>
  /\ pc = "returned"
  /\ fetched = << <<>> >>

====
